---- MODULE Spec2Model ----
(***************************************************************************)
(* quickstore: a write-back cache over a remote key-value table.           *)
(* The model covers the Store dispatcher (store.go), the per-shard node    *)
(* state machine with its LRU cache, ring queue, CondSet and flush worker  *)
(* (node.go in its latest revision), and the key codec (key.go).           *)
(*                                                                         *)
(* Every step taken while holding a node's mutex, from Lock (or the return *)
(* of a Cond.Wait) to Unlock (or the next Cond.Wait), is one action.       *)
(* Remote calls are made without the mutex and are actions of their own.   *)
(***************************************************************************)
EXTENDS Integers, Sequences, FiniteSets, TLC

\* ------------------------------------------------------------------ bounds
\* Number of public operations started in one behaviour of Spec.
MaxOps == 2
\* Number of public operations started in one behaviour of LongSpec and of
\* StoreSpec.
MaxOpsLong == 3
\* Number of Get calls started in one behaviour of CondSpec.
MaxOpsCond == 4
\* Capacity of each node's ring queue (bufSize, 1 << 16 in store.go) in Spec.
bufSize == 1
\* Capacity of each node's ring queue in LongSpec and in StoreSpec.
bufSizeLong == 2
\* Queue length at which mutate signals the flush worker (20 in store.go).
flushThreshold == 1
\* Capacity of each node's LRU cache (1 << 16 in node.go).
cacheCapacity == 1
\* Capacity of each node's CondSet (maxGet, 1 << 16 in node.go).
maxGet == 1
\* Largest number of keys sent in one BatchGetItem request.
getMultiThreshold == 100

\* The goroutines that may be inside the store at once, and those of them
\* that the clients of the ordinary specifications use.
Threads == {"t1", "t2", "t3"}
Clients == {"t1", "t2"}
KeyNames == {"k1", "k2", "k3"}
Values == {"v1", "v2"}
\* Content of the remote table before the store is constructed.
InitialStore == [k \in KeyNames |-> IF k = "k1" THEN "v0" ELSE "none"]

\* The number of nodes of the Store (16 in store.go), fixed by NewStore.
VARIABLE numNodes

Nodes == 0..(numNodes - 1)

\* --------------------------------------------------------------- key codec
delim == "."

\* Registry.kinds, the process-wide set of registered kinds, and the record of
\* the latest call of Parse made by the application.
VARIABLES Registry, parsed

Key(p, k, i) == [Parent |-> p, Kind |-> k, Identifier |-> i]

EmptyKey == Key(<<>>, <<>>, <<>>)

Incomplete(k) == k.Kind = <<>>

\* A String that leaves the delimiter out.
KeyStringNoDelim(k) ==
    IF Incomplete(k) THEN <<>> ELSE k.Parent \o k.Kind \o k.Identifier

KeyString(k) ==
    IF Incomplete(k) THEN <<>>
    ELSE LET s == k.Kind \o k.Identifier
         IN  IF k.Parent = <<>> THEN s ELSE k.Parent \o <<delim>> \o s

\* The index of the first occurrence of the byte instead of the last.
IndexByte(s, c) ==
    IF \E i \in 1..Len(s) : s[i] = c
    THEN CHOOSE i \in 1..Len(s) : s[i] = c /\ \A j \in 1..(i - 1) : s[j] # c
    ELSE 0

\* strings.LastIndexByte, 1-based; 0 when the byte does not occur.
LastIndexByte(s, c) ==
    IF \E i \in 1..Len(s) : s[i] = c
    THEN CHOOSE i \in 1..Len(s) : s[i] = c /\ \A j \in (i+1)..Len(s) : s[j] # c
    ELSE 0

divideKey(s) ==
    LET p == LastIndexByte(s, delim)
    IN  IF p = 0 THEN << <<>>, s >>
        ELSE << SubSeq(s, 1, p - 1), SubSeq(s, p + 1, Len(s)) >>

\* A Parse that goes on to the longest registered prefix.
ParseLongest(s) ==
    LET front == divideKey(s)[1]
        rear  == divideKey(s)[2]
        hits  == { i \in 1..Len(rear) : SubSeq(rear, 1, i) \in Registry }
    IN  IF hits = {} THEN EmptyKey
        ELSE LET i == CHOOSE x \in hits : \A y \in hits : y <= x
             IN  Key(front, SubSeq(rear, 1, i), SubSeq(rear, i + 1, Len(rear)))

Parse(s) ==
    LET front == divideKey(s)[1]
        rear  == divideKey(s)[2]
        hits  == { i \in 1..Len(rear) : SubSeq(rear, 1, i) \in Registry }
    IN  IF hits = {} THEN EmptyKey
        ELSE LET i == CHOOSE x \in hits : \A y \in hits : x <= y
             IN  Key(front, SubSeq(rear, 1, i), SubSeq(rear, i + 1, Len(rear)))

\* The keys the clients of the model use.
KeyOf(k) ==
    CASE k = "k1" -> Key(<<>>, <<"a">>, <<"x">>)
      [] k = "k2" -> Key(<<>>, <<"a">>, <<"z">>)
      [] k = "k3" -> Key(<<>>, <<"a">>, <<"y">>)
      [] OTHER    -> EmptyKey

NameOf(key) ==
    IF \E k \in KeyNames : KeyOf(k) = key
    THEN CHOOSE k \in KeyNames : KeyOf(k) = key
    ELSE "incomplete"

\* encodeKey: the attribute map {_key: key.String()}.
encodeKey(k) == KeyString(KeyOf(k))

\* decodeKey: Parse of the _key attribute of a fetched item.
decodeKey(s) == NameOf(Parse(s))

\* Stand-in for xxhash.Sum64String: a polynomial hash of the bytes, kept to
\* 16 bits so that the arithmetic stays within TLC's integers.
ByteOf(c) ==
    CASE c = "a" -> 2 [] c = "x" -> 2 [] c = "y" -> 3 [] c = "z" -> 4
      [] c = "." -> 5 [] OTHER -> 7

RECURSIVE hash64(_)
hash64(s) ==
    IF s = <<>> THEN 0
    ELSE (hash64(SubSeq(s, 1, Len(s) - 1)) * 31 + ByteOf(s[Len(s)])) % (2^16)

nodeOf(k) == hash64(KeyString(KeyOf(k))) % numNodes

KeysOfNode(n) == { k \in KeyNames : nodeOf(k) = n }

\* --------------------------------------------------------------- LRU cache
\* The cache of a node is the eviction list of simplelru.LRU: a sequence of
\* entries, most recently used first.
NoEntry == [state |-> "none", avs |-> "nil"]
BusyEntry == [state |-> "Busy", avs |-> "nil"]
NotExistEntry == [state |-> "NotExist", avs |-> "nil"]
ExistEntry(v) == [state |-> "Exist", avs |-> v]

Pos(c, k) ==
    IF \E i \in 1..Len(c) : c[i].key = k
    THEN CHOOSE i \in 1..Len(c) : c[i].key = k
    ELSE 0

Without(c, i) == SubSeq(c, 1, i - 1) \o SubSeq(c, i + 1, Len(c))

\* What cache.Get returns: the entry, or NoEntry on a miss.
lruValue(c, k) ==
    IF Pos(c, k) = 0 THEN NoEntry
    ELSE [state |-> c[Pos(c, k)].state, avs |-> c[Pos(c, k)].avs]

\* What cache.Get does to the list: a hit moves the entry to the front.
lruGet(c, k) ==
    IF Pos(c, k) = 0 THEN c ELSE <<c[Pos(c, k)]>> \o Without(c, Pos(c, k))

lruAdd(c, k, e) ==
    LET new == [key |-> k, state |-> e.state, avs |-> e.avs]
    IN  IF Pos(c, k) # 0 THEN <<new>> \o Without(c, Pos(c, k))
        ELSE IF Len(c) + 1 > cacheCapacity
             THEN SubSeq(<<new>> \o c, 1, Len(c))
             ELSE <<new>> \o c

lruRemove(c, k) == IF Pos(c, k) = 0 THEN c ELSE Without(c, Pos(c, k))

\* -------------------------------------------------------------- ring queue
ZeroMut == [op |-> "insert", key |-> "none", val |-> "none"]

newQueue(cap) ==
    [muts |-> [i \in 0..(cap - 1) |-> ZeroMut], cap |-> cap, len |-> 0, l |-> 0, r |-> 0]

qFull(q) == q.len = q.cap

qEmpty(q) == q.len = 0

\* A push whose write index does not wrap around.
qPushNoWrap(q, m) ==
    [muts |-> [q.muts EXCEPT ![q.r] = m],
     cap  |-> q.cap,
     len  |-> q.len + 1,
     l    |-> q.l,
     r    |-> q.r + 1]

\* queue.push once it is past its wait loop.
qPush(q, m) ==
    [muts |-> [q.muts EXCEPT ![q.r] = m],
     cap  |-> q.cap,
     len  |-> q.len + 1,
     l    |-> q.l,
     r    |-> IF q.r + 1 = q.cap THEN 0 ELSE q.r + 1]

\* A pop that takes the newest mutation instead of the oldest.
qPopNewest(q) == q.muts[IF q.r = 0 THEN q.cap - 1 ELSE q.r - 1]

\* queue.pop once it is past its wait loop: the mutation and the queue left.
qPopMut(q) == q.muts[q.l]

qPop(q) ==
    [muts |-> q.muts,
     cap  |-> q.cap,
     len  |-> q.len - 1,
     l    |-> IF q.l + 1 = q.cap THEN 0 ELSE q.l + 1,
     r    |-> q.r]

\* A drain that puts each popped mutation in front of the ones it has.
RECURSIVE drainNewestFirst(_, _)
drainNewestFirst(q, out) ==
    IF qEmpty(q) THEN [queue |-> q, muts |-> out]
    ELSE drainNewestFirst(qPop(q), <<qPopMut(q)>> \o out)

\* The loop "for !queue.empty() { muts = append(muts, queue.pop()) }".
RECURSIVE drain(_, _)
drain(q, out) ==
    IF qEmpty(q) THEN [queue |-> q, muts |-> out]
    ELSE drain(qPop(q), Append(out, qPopMut(q)))

\* ------------------------------------------------------------------- state
VARIABLES
    cache,      \* node -> eviction list of the LRU cache
    queue,      \* node -> ring queue of pending mutations
    closed,     \* node -> the closed flag
    keyConds,   \* node -> key -> wait count of the CondSet entry (0: no entry)
    wpc,        \* node -> position of the flush worker
    batch,      \* node -> muts, the worker's local batch
    wclosed,    \* node -> the worker's snapshot of closed
    done,       \* node -> number of signals buffered in the done channel
    th,         \* client thread -> its position and locals
    closer,     \* position of the thread running Store.CloseAndWait
    store,      \* the remote table: key -> value or "none"
    crashed,    \* the process has died of the flush worker's panic
    opsLeft,    \* public operations that may still be started
    accepted,   \* node -> mutations pushed and not yet handed to execute
    early,      \* node -> how many of them were pushed while the node was open
    lastWrite,  \* key -> the latest accepted mutation of the key (ZeroMut: none)
    last        \* the public operation that returned in the last step, if any

\* The mutex of a node and the goroutines around it, followed statement by
\* statement: who holds n.locker, where each goroutine is in the function it
\* runs, and which rules of the lock discipline have been broken so far.
VARIABLES holder, lpc, lockFault

LockThreads == Clients \cup {"flush"}

LockIdle == [op |-> "idle", i |-> 0, waits |-> FALSE]

\* newNode: the mutex is free and "go n.flush()" has started the worker.
newLocker ==
    /\ holder = "none"
    /\ lpc = [t \in LockThreads |->
                IF t = "flush" THEN [op |-> "flush", i |-> 1, waits |-> FALSE]
                ELSE LockIdle]
    /\ lockFault = {}

vars == << numNodes, cache, queue, closed, keyConds, wpc, batch, wclosed, done, th,
           closer, store, crashed, opsLeft, accepted, early, lastWrite, last,
           Registry, parsed, holder, lpc, lockFault >>

NoItems == [k \in KeyNames |-> NoEntry]
NoOutput == [k \in KeyNames |-> "none"]

\* A thread that is not inside a public operation.
IdleT ==
    [pc |-> "idle", op |-> "none", key |-> "none", val |-> "none",
     resp |-> "none", hit |-> {}, dirty |-> {}, fetched |-> FALSE,
     keys |-> {}, i |-> 0, notCached |-> {}, pending |-> {},
     output |-> NoOutput, items |-> NoItems, acc |-> NoOutput, got |-> {}]

NoLast ==
    [op |-> "none", key |-> "none", val |-> "none", keys |-> {},
     res |-> "none", items |-> NoOutput, fetched |-> FALSE, dirty |-> {},
     got |-> {}]

\* The state as one record, so that a handler is a function on states. The
\* record of the operation that returned is kept for one step only.
Cur ==
    [cache |-> cache, queue |-> queue, closed |-> closed, keyConds |-> keyConds,
     wpc |-> wpc, batch |-> batch, wclosed |-> wclosed, done |-> done, th |-> th,
     closer |-> closer, store |-> store, crashed |-> crashed, opsLeft |-> opsLeft,
     accepted |-> accepted, early |-> early, lastWrite |-> lastWrite,
     last |-> NoLast]

Commit(S) ==
    /\ numNodes' = numNodes
    /\ cache' = S.cache
    /\ queue' = S.queue
    /\ closed' = S.closed
    /\ keyConds' = S.keyConds
    /\ wpc' = S.wpc
    /\ batch' = S.batch
    /\ wclosed' = S.wclosed
    /\ done' = S.done
    /\ th' = S.th
    /\ closer' = S.closer
    /\ store' = S.store
    /\ crashed' = S.crashed
    /\ opsLeft' = S.opsLeft
    /\ accepted' = S.accepted
    /\ early' = S.early
    /\ lastWrite' = S.lastWrite
    /\ last' = S.last
    /\ UNCHANGED << Registry, parsed, holder, lpc, lockFault >>

\* No call of Parse has been made. The record keeps the argument's key, the registry Parse
\* consulted and the key it returned.
NoParse == [key |-> EmptyKey, kinds |-> {}, out |-> EmptyKey, called |-> FALSE]

\* The nodes that NewStore builds: N nodes whose queues hold cap mutations,
\* over a remote table with some content; the clients will start at most ops
\* operations.
newNodes(N, ops, cap) ==
    /\ numNodes = N
    /\ cache = [n \in Nodes |-> <<>>]
    /\ queue = [n \in Nodes |-> newQueue(cap)]
    /\ closed = [n \in Nodes |-> FALSE]
    /\ keyConds = [n \in Nodes |-> [k \in KeyNames |-> 0]]
    /\ wpc = [n \in Nodes |-> "start"]
    /\ batch = [n \in Nodes |-> <<>>]
    /\ wclosed = [n \in Nodes |-> FALSE]
    /\ done = [n \in Nodes |-> 0]
    /\ th = [t \in Threads |-> IdleT]
    /\ closer = [phase |-> "close", i |-> 0]
    /\ store = InitialStore
    /\ crashed = FALSE
    /\ opsLeft = ops
    /\ accepted = [n \in Nodes |-> <<>>]
    /\ early = [n \in Nodes |-> 0]
    /\ lastWrite = [k \in KeyNames |-> ZeroMut]
    /\ last = NoLast

\* The kinds the application registers before it constructs the Store.
RegisteredKinds == { <<"a">> }

\* NewStore, called by an application that has registered its kinds.
NewStore(N, ops, cap) ==
    /\ newNodes(N, ops, cap)
    /\ Registry = RegisteredKinds
    /\ parsed = NoParse
    /\ newLocker

\* ----------------------------------------------------- condition variables
\* sync.Cond.Signal wakes one goroutine blocked in Wait, if there is any.
\* A woken goroutine runs again once it has the mutex back: its next action.
WakeChoices(waiters) == IF waiters = {} THEN {"none"} ELSE waiters

\* Threads blocked in waitAndSignal on the entry of key k.
KeyWaiters(S, k) ==
    { u \in Threads : S.th[u].pc = "condWait" /\ S.th[u].key = k }

\* Threads blocked in queue.push on notFull of node n.
PushWaiters(S, n) ==
    { u \in Threads : S.th[u].pc = "pushWait" /\ nodeOf(S.th[u].key) = n }

\* flushCond.Signal: only the flush worker waits on flushCond.
signalFlush(w) == IF w = "flushWait" THEN "flushWoken" ELSE w

\* queue.notFull.Signal, once per pop: the producers in W are woken.
wakeProducers(S, W) ==
    [S EXCEPT !.th = [u \in Threads |->
        IF u \in W THEN [S.th[u] EXCEPT !.pc = "pushWoken"] ELSE S.th[u]]]

\* The sets of producers that `pops` signals may wake.
ProducerChoices(S, n, pops) ==
    { W \in SUBSET PushWaiters(S, n) :
        Cardinality(W) = IF pops < Cardinality(PushWaiters(S, n))
                         THEN pops ELSE Cardinality(PushWaiters(S, n)) }

\* A CondSet that never refuses a new key.
condNeverFull(kc) == FALSE

\* condSet.full
condFull(kc) == Cardinality({ k \in KeyNames : kc[k] > 0 }) = maxGet

\* condSet.signal(key), run by the deferred call of getOrSaveCache.
signal(S, k, w) ==
    IF S.keyConds[nodeOf(k)][k] > 0 /\ w # "none"
    THEN [S EXCEPT !.th[w].pc = "condWoken"]
    ELSE S

\* ------------------------------------------------------- node: public ops
\* The errors a Get can return, and the dynamic type of the value each
\* constructor returns: a pointer to the error struct.
ErrorNames == {"ItemNotExisted", "BackingStoreError", "TooManyRequests", "Closed"}

ErrorType(r) ==
    CASE r = "ItemNotExisted" -> "*ErrItemNotExisted"
      [] r = "BackingStoreError" -> "*ErrDynamoDBException"
      [] r = "TooManyRequests" -> "*ErrTooManyRequests"
      [] r = "Closed" -> "*ErrClosed"

\* Store.DoesItemExist on the result r of node.get: the type assertion
\* err.(ErrItemNotExisted) holds when the dynamic type of err is that type.
\* (true, nil) is "true", (false, nil) is "false", (false, err) is err.
doesItemExist(r) ==
    IF r \in ErrorNames
    THEN IF ErrorType(r) = "ErrItemNotExisted" THEN "false" ELSE r
    ELSE "true"

\* A public operation returns r to its caller.
Return(S, t, r) ==
    [S EXCEPT
        !.th[t] = IdleT,
        !.last = [op |-> S.th[t].op, key |-> S.th[t].key,
                  val |-> S.th[t].val, keys |-> S.th[t].keys,
                  res |-> IF S.th[t].op = "exists" THEN doesItemExist(r) ELSE r,
                  items |-> NoOutput, fetched |-> S.th[t].fetched,
                  dirty |-> S.th[t].dirty, got |-> S.th[t].got]]

maxThreshold == 25

threshold == IF flushThreshold > maxThreshold THEN maxThreshold ELSE flushThreshold

\* The cache entry mutate writes for a mutation.
entryOf(op, v) == IF op = "delete" THEN NotExistEntry ELSE ExistEntry(v)

\* Thread u is between the Unlock and the Lock around a remote GET of key k.
inFetch(S, u, k) ==
    \/ S.th[u].pc \in {"fetch", "fetched"} /\ S.th[u].key = k
    \/ S.th[u].pc \in {"mfetch", "mfetched"} /\ k \in S.th[u].notCached

\* Thread u is inside a public operation on key k.
inCall(S, u, k) ==
    S.th[u].pc # "idle" /\ (S.th[u].key = k \/ k \in S.th[u].keys)

\* mutate once queue.push is past its wait loop: push, signal the worker at
\* the threshold, write the cache entry; then the operation returns nil.
pushAndCache(S, t) ==
    LET k == S.th[t].key
        n == nodeOf(k)
        m == [op |-> S.th[t].op, key |-> k, val |-> S.th[t].val]
        q == qPush(S.queue[n], m)
        e == entryOf(m.op, m.val)
        S1 == [S EXCEPT
                !.queue[n] = q,
                !.wpc[n] = IF q.len >= threshold THEN signalFlush(@) ELSE @,
                !.cache[n] = lruAdd(@, k, e),
                !.accepted[n] = Append(@, m),
                !.early[n] = IF S.closed[n] THEN @ ELSE @ + 1,
                !.lastWrite[k] = m,
                !.th = [u \in Threads |->
                    [S.th[u] EXCEPT
                        !.hit = IF inFetch(S, u, k) THEN @ \cup {k} ELSE @,
                        !.dirty = IF u # t /\ inCall(S, u, k) THEN @ \cup {k} ELSE @]]]
    IN  Return(S1, t, "ok")

\* A push that does not wait for room in the queue.
mutateNoWait(S, t) == pushAndCache(S, t)

\* node.mutate: queue.push blocks on notFull while the queue is full.
mutate(S, t) ==
    IF qFull(S.queue[nodeOf(S.th[t].key)])
    THEN [S EXCEPT !.th[t].pc = "pushWait"]
    ELSE pushAndCache(S, t)

\* An insert that does not look at the state of the entry.
proceedInsertOverwrites(S, t, e) ==
    CASE S.th[t].op = "get" ->
            Return(S, t, IF e.state = "NotExist" THEN "ItemNotExisted" ELSE e.avs)
      [] S.th[t].op = "insert" -> mutate(S, t)
      [] S.th[t].op = "update" ->
            IF e.state = "NotExist" THEN Return(S, t, "ItemNotExisted") ELSE mutate(S, t)

\* An update that does not look at the state of the entry.
proceedUpdateCreates(S, t, e) ==
    CASE S.th[t].op = "get" ->
            Return(S, t, IF e.state = "NotExist" THEN "ItemNotExisted" ELSE e.avs)
      [] S.th[t].op = "insert" ->
            IF e.state = "Exist" THEN Return(S, t, "ItemExisted") ELSE mutate(S, t)
      [] S.th[t].op = "update" -> mutate(S, t)

\* What insert, update and get do with the entry getOrSaveCache returned.
proceed(S, t, e) ==
    CASE S.th[t].op \in {"get", "exists"} ->
            Return(S, t, IF e.state = "NotExist" THEN "ItemNotExisted" ELSE e.avs)
      [] S.th[t].op = "insert" ->
            IF e.state = "Exist" THEN Return(S, t, "ItemExisted") ELSE mutate(S, t)
      [] S.th[t].op = "update" ->
            IF e.state = "NotExist" THEN Return(S, t, "ItemNotExisted") ELSE mutate(S, t)

\* getOrSaveCache returns the entry e to insert, update or get; the state of
\* the entry is recorded with the call.
returnEntry(S, t, e) == proceed([S EXCEPT !.th[t].got = {e.state}], t, e)

\* condSet.waitAndSignal up to its Wait.
waitAndSignal(S, t) ==
    LET k == S.th[t].key
        n == nodeOf(k)
    IN  IF S.keyConds[n][k] = 0 /\ condFull(S.keyConds[n])
        THEN Return(S, t, "TooManyRequests")
        ELSE [S EXCEPT !.keyConds[n][k] = @ + 1, !.th[t].pc = "condWait"]

\* getOrSaveCache from the top of its loop up to the point where it gives up
\* the mutex (Wait, or Unlock before the remote GET) or returns.
getOrSaveCache(S, t) ==
    LET k == S.th[t].key
        n == nodeOf(k)
        e == lruValue(S.cache[n], k)
        S1 == [S EXCEPT !.cache[n] = lruGet(@, k)]
    IN  IF e = NoEntry
        THEN [S EXCEPT !.cache[n] = lruAdd(@, k, BusyEntry), !.th[t].pc = "fetch"]
        ELSE IF e.state # "Busy"
             THEN returnEntry(S1, t, e)
             ELSE waitAndSignal(S1, t)

\* A waitAndSignal that decrements the count after its Wait and does not pass
\* the signal on.
afterWaitNoChain(S, t, w) ==
    LET k == S.th[t].key
        n == nodeOf(k)
    IN  getOrSaveCache([S EXCEPT !.keyConds[n][k] = IF @ > 1 THEN @ - 1 ELSE 0], t)

\* A waitAndSignal that deletes the entry after its Wait whatever the count.
afterWaitDeletes(S, t, w) ==
    LET k == S.th[t].key
        n == nodeOf(k)
    IN  getOrSaveCache([S EXCEPT !.keyConds[n][k] = 0], t)

\* condSet.waitAndSignal after its Wait, then the loop of getOrSaveCache again.
afterWait(S, t, w) ==
    LET k == S.th[t].key
        n == nodeOf(k)
        S1 == IF S.keyConds[n][k] > 1
              THEN [S EXCEPT !.keyConds[n][k] = @ - 1,
                             !.th = [u \in Threads |->
                                 IF u = w THEN [S.th[u] EXCEPT !.pc = "condWoken"]
                                 ELSE S.th[u]]]
              ELSE [S EXCEPT !.keyConds[n][k] = 0,
                             !.th = [u \in Threads |->
                                 IF u \in KeyWaiters(S, k)
                                 THEN [S.th[u] EXCEPT !.pc = "stranded"]
                                 ELSE S.th[u]]]
    IN  getOrSaveCache(S1, t)

\* A getOrSaveCache whose error path leaves the cache as it is.
afterGetKeepsSentinel(S, t, w) ==
    LET k == S.th[t].key
        n == nodeOf(k)
        value == IF S.th[t].resp = "none" THEN NotExistEntry ELSE ExistEntry(S.th[t].resp)
        e == lruValue(S.cache[n], k)
    IN  IF S.th[t].resp = "err"
        THEN Return(signal(S, k, w), t, "BackingStoreError")
        ELSE IF e = NoEntry \/ e.state = "Busy"
             THEN returnEntry(signal([S EXCEPT !.cache[n] = lruAdd(lruGet(@, k), k, value)], k, w),
                          t, value)
             ELSE returnEntry(signal([S EXCEPT !.cache[n] = lruGet(@, k)], k, w), t, e)

\* getOrSaveCache after the remote GET: the error path removes the key from
\* the cache; the success path installs the fetched entry unless the cache
\* holds a non-Busy entry. The deferred signal runs as the function returns.
afterGet(S, t, w) ==
    LET k == S.th[t].key
        n == nodeOf(k)
        value == IF S.th[t].resp = "none" THEN NotExistEntry ELSE ExistEntry(S.th[t].resp)
        e == lruValue(S.cache[n], k)
    IN  IF S.th[t].resp = "err"
        THEN Return(signal([S EXCEPT !.cache[n] = lruRemove(@, k)], k, w),
                    t, "BackingStoreError")
        ELSE IF e = NoEntry \/ e.state = "Busy"
             THEN returnEntry(signal([S EXCEPT !.cache[n] = lruAdd(lruGet(@, k), k, value)], k, w),
                          t, value)
             ELSE returnEntry(signal([S EXCEPT !.cache[n] = lruGet(@, k)], k, w), t, e)

\* --------------------------------------------------------- node: getMulti
\* The orders in which a range over a Go map may visit the keys of ks.
Orders(ks) ==
    { o \in [1..Cardinality(ks) -> ks] : \A a, b \in 1..Cardinality(ks) : o[a] = o[b] => a = b }

\* A partition that hands every key to every node.
partitionAll(ks, n) == ks

\* The partition p[n] of Store.GetMulti.
partition(ks, n) == { k \in ks : nodeOf(k) = n }

\* A first loop that takes every cached entry, a Busy one too.
RECURSIVE firstLoopTakesBusy(_, _, _, _)
firstLoopTakesBusy(c, ord, items, nc) ==
    IF ord = <<>> THEN [cache |-> c, items |-> items, notCached |-> nc]
    ELSE LET k == Head(ord)
             e == lruValue(c, k)
         IN  IF e = NoEntry
             THEN firstLoopTakesBusy(lruGet(c, k), Tail(ord), items, nc \cup {k})
             ELSE firstLoopTakesBusy(lruGet(c, k), Tail(ord), [items EXCEPT ![k] = e], nc)

\* The first loop of getOrSaveCacheMulti: cached entries that are not Busy go
\* to items, the other keys to notCached.
RECURSIVE firstLoop(_, _, _, _)
firstLoop(c, ord, items, nc) ==
    IF ord = <<>> THEN [cache |-> c, items |-> items, notCached |-> nc]
    ELSE LET k == Head(ord)
             e == lruValue(c, k)
         IN  IF e = NoEntry \/ e.state = "Busy"
             THEN firstLoop(lruGet(c, k), Tail(ord), items, nc \cup {k})
             ELSE firstLoop(lruGet(c, k), Tail(ord), [items EXCEPT ![k] = e], nc)

\* The second loop of getOrSaveCacheMulti, after fetchMulti.
RECURSIVE secondLoop(_, _, _, _, _)
secondLoop(c, ord, items, nc, output) ==
    IF ord = <<>> THEN [cache |-> c, items |-> items]
    ELSE LET k == Head(ord)
             e == lruValue(c, k)
             cached == IF output[k] # "none" THEN ExistEntry(output[k]) ELSE NotExistEntry
         IN  IF e = NoEntry \/ e.state = "Busy"
             THEN IF k \in nc
                  THEN secondLoop(lruAdd(lruGet(c, k), k, cached), Tail(ord),
                                  [items EXCEPT ![k] = cached], nc, output)
                  ELSE secondLoop(lruGet(c, k), Tail(ord), items, nc, output)
             ELSE secondLoop(lruGet(c, k), Tail(ord), [items EXCEPT ![k] = e], nc, output)

\* Nodes after n that Store.GetMulti still has to call.
NodesLeft(ks, n) == { j \in Nodes : j > n /\ partition(ks, j) # {} }

FirstNode(ns) == CHOOSE j \in ns : \A x \in ns : j <= x

\* node.getMulti returns the Exist entries of items; Store.GetMulti adds them
\* to its result and goes on to the next node with a non-empty partition, or
\* returns.
multiReturn(S, t, n, items) ==
    LET ks  == S.th[t].keys
        acc == [k \in KeyNames |->
                   IF items[k].state = "Exist" THEN items[k].avs ELSE S.th[t].acc[k]]
        g   == S.th[t].got \cup { items[k].state : k \in partition(ks, n) }
    IN  IF NodesLeft(ks, n) = {}
        THEN [Return([S EXCEPT !.th[t].got = g], t, "ok") EXCEPT !.last.items = acc]
        ELSE [S EXCEPT !.th[t] = [IdleT EXCEPT
                 !.pc = "multiCall", !.op = "getMulti", !.keys = ks,
                 !.i = FirstNode(NodesLeft(ks, n)), !.acc = acc, !.got = g,
                 !.fetched = S.th[t].fetched, !.dirty = S.th[t].dirty]]

\* node.getMulti on node n up to the Unlock before fetchMulti, or to its
\* return when every key is cached.
multiEnter(S, t, n, ord) ==
    LET r == firstLoop(S.cache[n], ord, NoItems, {})
        S1 == [S EXCEPT !.cache[n] = r.cache]
    IN  IF r.notCached = {}
        THEN multiReturn(S1, t, n, r.items)
        ELSE [S1 EXCEPT !.th[t].pc = "mfetch", !.th[t].i = n,
                        !.th[t].items = r.items, !.th[t].notCached = r.notCached,
                        !.th[t].pending = r.notCached]

\* One BatchGetItem of fetchMulti for the keys B, of which U come back
\* unprocessed; an item found is filed under the key decoded from it.
batchGet(S, t, B, U) ==
    LET found == { k \in B \ U : S.store[k] # "none" }
        out == [k \in KeyNames |->
                   IF \E f \in found : decodeKey(encodeKey(f)) = k
                   THEN S.store[CHOOSE f \in found : decodeKey(encodeKey(f)) = k]
                   ELSE S.th[t].output[k]]
        left == (S.th[t].pending \ B) \cup U
    IN  [S EXCEPT !.th[t].output = out, !.th[t].pending = left,
                  !.th[t].fetched = TRUE,
                  !.th[t].pc = IF left = {} THEN "mfetched" ELSE "mfetch"]

\* getOrSaveCacheMulti after fetchMulti.
afterMultiGet(S, t, ord) ==
    LET n == S.th[t].i
        r == secondLoop(S.cache[n], ord, S.th[t].items, S.th[t].notCached, S.th[t].output)
    IN  IF S.th[t].resp = "err"
        THEN Return(S, t, "BackingStoreError")
        ELSE multiReturn([S EXCEPT !.cache[n] = r.cache], t, n, r.items)

\* ------------------------------------------------------------ flush worker
\* execute: PutItem for insert, upsert and update, DeleteItem for delete.
execute(st, m) == [st EXCEPT ![m.key] = IF m.op = "delete" THEN "none" ELSE m.val]

\* A worker that reads the node's closed flag after its batch instead of the
\* value it saw under the lock when it took the batch.
endOfBatchReadsClosed(S, n) ==
    IF S.closed[n]
    THEN [S EXCEPT !.wpc[n] = "done", !.done[n] = @ + 1]
    ELSE [S EXCEPT !.wpc[n] = "start"]

\* The end of an iteration of the worker's loop whose batch went through:
\* the worker returns (and the deferred send on done runs) if it saw closed.
endOfBatch(S, n) ==
    IF S.wclosed[n]
    THEN [S EXCEPT !.wpc[n] = "done", !.done[n] = @ + 1]
    ELSE [S EXCEPT !.wpc[n] = "start"]

\* flush from Lock to Unlock: wait while the node is open and the queue is
\* below the threshold; otherwise take the whole queue as the batch.
flushLocked(S, n, W) ==
    IF ~S.closed[n] /\ S.queue[n].len < threshold
    THEN [S EXCEPT !.wpc[n] = "flushWait"]
    ELSE LET d == drain(S.queue[n], <<>>)
             S1 == wakeProducers([S EXCEPT !.queue[n] = d.queue, !.batch[n] = d.muts,
                                           !.wclosed[n] = S.closed[n], !.wpc[n] = "exec"], W)
         IN  IF d.muts = <<>> THEN endOfBatch(S1, n) ELSE S1

\* One round of "for i, mut := range muts": execute succeeds or fails.
flushExecute(S, n, ok) ==
    LET m == Head(S.batch[n])
        S1 == [S EXCEPT !.accepted[n] = Tail(@),
                        !.early[n] = IF @ > 0 THEN @ - 1 ELSE 0]
    IN  IF ~ok THEN [S1 EXCEPT !.wpc[n] = "failed"]
        ELSE LET S2 == [S1 EXCEPT !.store = execute(@, m), !.batch[n] = Tail(@)]
             IN  IF Tail(S.batch[n]) = <<>> THEN endOfBatch(S2, n) ELSE S2

\* A worker that empties the queue after a failed execute and leaves the
\* node open.
flushFailedStaysOpen(S, n, W) ==
    LET d == drain(S.queue[n], S.batch[n])
    IN  wakeProducers([S EXCEPT !.queue[n] = d.queue, !.batch[n] = d.muts,
                                !.wpc[n] = "panic"], W)

\* flush after a failed execute: close the node and empty the queue.
flushFailed(S, n, W) ==
    LET d == drain(S.queue[n], S.batch[n])
    IN  wakeProducers([S EXCEPT !.closed[n] = TRUE, !.queue[n] = d.queue,
                                !.batch[n] = d.muts, !.wpc[n] = "panic"], W)

\* panic(err): the deferred send on done runs, then the process dies.
flushPanic(S, n) ==
    [S EXCEPT !.wpc[n] = "dead", !.done[n] = @ + 1, !.crashed = TRUE]

\* ------------------------------------------------------------------ Store
\* node.close, called by Store.CloseAndWait for node closer.i.
closeNode(S, n) ==
    LET S1 == IF S.closed[n] THEN S
              ELSE [S EXCEPT !.closed[n] = TRUE, !.wpc[n] = signalFlush(@)]
    IN  IF n + 1 = numNodes
        THEN [S1 EXCEPT !.closer = [phase |-> "wait", i |-> 0]]
        ELSE [S1 EXCEPT !.closer.i = n + 1]

\* "<-s.nodes[i].done" of Store.CloseAndWait.
awaitDone(S, n) ==
    LET S1 == [S EXCEPT !.done[n] = @ - 1]
    IN  IF n + 1 = numNodes
        THEN [S1 EXCEPT !.closer = [phase |-> "returned", i |-> 0]]
        ELSE [S1 EXCEPT !.closer.i = n + 1]

\* Store.CloseAndWait is called once more, after an earlier call returned:
\* it starts with close() on node 0.
closeAndWaitAgain(S) == [S EXCEPT !.closer = [phase |-> "close", i |-> 0]]

\* A thread enters a public operation.
begin(S, t, op, k, v, ks) ==
    [S EXCEPT !.th[t] = [IdleT EXCEPT !.pc = "run", !.op = op, !.key = k,
                                      !.val = v, !.keys = ks],
              !.opsLeft = @ - 1]

\* ---------------------------------------------------------------- actions
CanStart(t) == ~crashed /\ opsLeft > 0 /\ th[t].pc = "idle"

\* Store.Insert -> node.insert
Insert(t, k, v) ==
    /\ CanStart(t)
    /\ LET S == begin(Cur, t, "insert", k, v, {})
       IN  Commit(IF S.closed[nodeOf(k)] THEN Return(S, t, "Closed")
                  ELSE getOrSaveCache(S, t))

\* Store.Update -> node.update
Update(t, k, v) ==
    /\ CanStart(t)
    /\ LET S == begin(Cur, t, "update", k, v, {})
       IN  Commit(IF S.closed[nodeOf(k)] THEN Return(S, t, "Closed")
                  ELSE getOrSaveCache(S, t))

\* Store.Upsert -> node.upsert
Upsert(t, k, v) ==
    /\ CanStart(t)
    /\ LET S == begin(Cur, t, "upsert", k, v, {})
       IN  Commit(IF S.closed[nodeOf(k)] THEN Return(S, t, "Closed")
                  ELSE mutate(S, t))

\* Store.Delete -> node.delete
Delete(t, k) ==
    /\ CanStart(t)
    /\ LET S == begin(Cur, t, "delete", k, "none", {})
       IN  Commit(IF S.closed[nodeOf(k)] THEN Return(S, t, "Closed")
                  ELSE mutate(S, t))

\* Store.Get -> node.get
Get(t, k) ==
    /\ CanStart(t)
    /\ Commit(getOrSaveCache(begin(Cur, t, "get", k, "none", {}), t))

\* Store.DoesItemExist -> node.get
DoesItemExist(t, k) ==
    /\ CanStart(t)
    /\ Commit(getOrSaveCache(begin(Cur, t, "exists", k, "none", {}), t))

\* Store.GetMulti up to the first node's fetchMulti
GetMulti(t, ks) ==
    /\ CanStart(t)
    /\ ks # {}
    /\ LET S == begin(Cur, t, "getMulti", "none", "none", ks)
           n == FirstNode({ j \in Nodes : partition(ks, j) # {} })
       IN  \E ord \in Orders(partition(ks, n)) : Commit(multiEnter(S, t, n, ord))

\* Store.GetMulti calls getMulti of the next node
GetMultiNext(t) ==
    /\ ~crashed
    /\ th[t].pc = "multiCall"
    /\ \E ord \in Orders(partition(th[t].keys, th[t].i)) :
          Commit(multiEnter(Cur, t, th[t].i, ord))

\* The remote GetItem of getOrSaveCache answers (ok) or fails.
GetItem(t, ok) ==
    /\ ~crashed
    /\ th[t].pc = "fetch"
    /\ th' = [th EXCEPT ![t].pc = "fetched", ![t].fetched = TRUE,
                        ![t].resp = IF ok THEN store[th[t].key] ELSE "err"]
    /\ last' = NoLast
    /\ UNCHANGED << numNodes, cache, queue, closed, keyConds, wpc, batch, wclosed, done,
                    closer, store, crashed, opsLeft, accepted, early, lastWrite,
                    Registry, parsed, holder, lpc, lockFault >>

\* getOrSaveCache takes the mutex again after GetItem
AfterGet(t) ==
    /\ ~crashed
    /\ th[t].pc = "fetched"
    /\ \E w \in WakeChoices(KeyWaiters(Cur, th[t].key)) : Commit(afterGet(Cur, t, w))

\* A thread signalled in waitAndSignal takes the mutex again
AfterWait(t) ==
    /\ ~crashed
    /\ th[t].pc = "condWoken"
    /\ \E w \in WakeChoices(KeyWaiters(Cur, th[t].key)) : Commit(afterWait(Cur, t, w))

\* A producer signalled in queue.push takes the mutex again
AfterPushWait(t) ==
    /\ ~crashed
    /\ th[t].pc = "pushWoken"
    /\ Commit(mutate(Cur, t))

\* One remote BatchGetItem of fetchMulti answers
BatchGetItem(t) ==
    /\ ~crashed
    /\ th[t].pc = "mfetch"
    /\ \E B \in SUBSET th[t].pending :
          /\ Cardinality(B) = IF Cardinality(th[t].pending) > getMultiThreshold
                              THEN getMultiThreshold ELSE Cardinality(th[t].pending)
          /\ \E U \in SUBSET B : U # B /\ Commit(batchGet(Cur, t, B, U))

\* One remote BatchGetItem of fetchMulti fails
BatchGetItemFails(t) ==
    /\ ~crashed
    /\ th[t].pc = "mfetch"
    /\ th' = [th EXCEPT ![t].pc = "mfetched", ![t].resp = "err", ![t].fetched = TRUE]
    /\ last' = NoLast
    /\ UNCHANGED << numNodes, cache, queue, closed, keyConds, wpc, batch, wclosed, done,
                    closer, store, crashed, opsLeft, accepted, early, lastWrite,
                    Registry, parsed, holder, lpc, lockFault >>

\* getOrSaveCacheMulti takes the mutex again after fetchMulti
AfterMultiGet(t) ==
    /\ ~crashed
    /\ th[t].pc = "mfetched"
    /\ \E ord \in Orders(partition(th[t].keys, th[t].i)) : Commit(afterMultiGet(Cur, t, ord))

\* The flush worker takes the mutex at the top of its loop or after a Wait
FlushLocked(n) ==
    /\ ~crashed
    /\ wpc[n] \in {"start", "flushWoken"}
    /\ \E W \in ProducerChoices(Cur, n, queue[n].len) : Commit(flushLocked(Cur, n, W))

\* The flush worker executes the next mutation of its batch
FlushExecute(n, ok) ==
    /\ ~crashed
    /\ wpc[n] = "exec"
    /\ Commit(flushExecute(Cur, n, ok))

\* The flush worker closes the node after a failed execute
FlushFailed(n) ==
    /\ ~crashed
    /\ wpc[n] = "failed"
    /\ \E W \in ProducerChoices(Cur, n, queue[n].len) : Commit(flushFailed(Cur, n, W))

\* The flush worker panics
FlushPanic(n) ==
    /\ ~crashed
    /\ wpc[n] = "panic"
    /\ Commit(flushPanic(Cur, n))

\* Store.CloseAndWait closes the next node
CloseNode ==
    /\ ~crashed
    /\ closer.phase = "close"
    /\ Commit(closeNode(Cur, closer.i))

\* Store.CloseAndWait receives from the next node's done channel
AwaitDone ==
    /\ ~crashed
    /\ closer.phase = "wait"
    /\ done[closer.i] > 0
    /\ Commit(awaitDone(Cur, closer.i))

\* Store.CloseAndWait is called again
CloseAndWaitAgain ==
    /\ ~crashed
    /\ closer.phase = "returned"
    /\ Commit(closeAndWaitAgain(Cur))

\* The steps of the operations under way and of the flush workers.
Steps ==
    \/ \E t \in Clients, ok \in BOOLEAN : GetItem(t, ok)
    \/ \E t \in Clients : AfterGet(t)
    \/ \E t \in Clients : AfterWait(t)
    \/ \E t \in Clients : AfterPushWait(t)
    \/ \E t \in Clients : BatchGetItem(t)
    \/ \E t \in Clients : BatchGetItemFails(t)
    \/ \E t \in Clients : AfterMultiGet(t)
    \/ \E n \in Nodes : FlushLocked(n)
    \/ \E n \in Nodes, ok \in BOOLEAN : FlushExecute(n, ok)
    \/ \E n \in Nodes : FlushFailed(n)
    \/ \E n \in Nodes : FlushPanic(n)

\* The public operations on the keys K.
Calls(K) ==
    \/ \E t \in Clients, k \in K, v \in Values : Insert(t, k, v)
    \/ \E t \in Clients, k \in K, v \in Values : Update(t, k, v)
    \/ \E t \in Clients, k \in K, v \in Values : Upsert(t, k, v)
    \/ \E t \in Clients, k \in K : Delete(t, k)
    \/ \E t \in Clients, k \in K : Get(t, k)
    \/ \E t \in Clients, ks \in SUBSET K : GetMulti(t, ks)

\* Spec: a Store of one node, so that every key is a key of node 0; the
\* clients use two keys and may call CloseAndWait at any time.
NodeKeys == {"k1", "k2"}

Init == NewStore(1, MaxOps, bufSize)

Next ==
    \/ Calls(NodeKeys)
    \/ Steps
    \/ CloseNode
    \/ AwaitDone

Spec == Init /\ [][Next]_vars

\* LongSpec: one more operation and longer queues, on a Store that is not
\* closed.
LongInit == NewStore(1, MaxOpsLong, bufSizeLong)

LongNext ==
    \/ Calls(NodeKeys)
    \/ Steps

LongSpec == LongInit /\ [][LongNext]_vars

\* OneKeySpec: as LongSpec, with clients that use a single key, so that the
\* cache never has to evict an entry.
OneKeyNext ==
    \/ Calls({"k1"})
    \/ Steps

OneKeySpec == LongInit /\ [][OneKeyNext]_vars

\* One node read by three goroutines: enough callers for one key to be
\* waited for while another key is being fetched.
CondInit == NewStore(1, MaxOpsCond, bufSize)

CondNext ==
    \/ \E t \in Threads, k \in NodeKeys : Get(t, k)
    \/ \E t \in Threads, ok \in BOOLEAN : GetItem(t, ok)
    \/ \E t \in Threads : AfterGet(t)
    \/ \E t \in Threads : AfterWait(t)

CondSpec == CondInit /\ [][CondNext]_vars

\* Spec with the progress the program's environment gives to a fetch. The
\* remote GET of getOrSaveCache returns (context.WithTimeout bounds it): weak
\* fairness of GetItem. The goroutine it returns to obtains the node's mutex:
\* weak fairness of AfterGet(t), written with the state predicate that is
\* equivalent to it, since AfterGet(t) is enabled exactly while t is at
\* "fetched" in a live process, and taking it moves t away from "fetched".
LiveSpec ==
    /\ Init
    /\ [][Next]_vars
    /\ \A t \in Clients : WF_vars(\E ok \in BOOLEAN : GetItem(t, ok))
    /\ \A t \in Clients : []<>(th[t].pc # "fetched" \/ crashed)

\* CondSpec with the progress the program's environment gives to its
\* goroutines: the remote GET returns (weak fairness of GetItem), and a
\* goroutine that waits for the node's mutex after its GET or after being
\* signalled obtains it (weak fairness of AfterGet(t) and AfterWait(t), each
\* written with the state predicate equivalent to it: the action is enabled
\* exactly while t is at "fetched", or "condWoken", and taking it moves t
\* away from there).
CondLiveSpec ==
    /\ CondInit
    /\ [][CondNext]_vars
    /\ \A t \in Threads : WF_vars(\E ok \in BOOLEAN : GetItem(t, ok))
    /\ \A t \in Threads : []<>(th[t].pc # "fetched")
    /\ \A t \in Threads : []<>(th[t].pc # "condWoken")

\* StoreSpec: a Store of two nodes that is not closed; k1 and k2 are keys of
\* node 0, k3 is a key of node 1. The clients upsert and multi-get.
StoreInit == NewStore(2, MaxOpsLong, bufSizeLong)

StoreNext ==
    \/ \E t \in Clients, k \in KeyNames, v \in Values : Upsert(t, k, v)
    \/ \E t \in Clients, ks \in SUBSET KeyNames : GetMulti(t, ks)
    \/ \E t \in Clients : GetMultiNext(t)
    \/ \E t \in Clients : AfterPushWait(t)
    \/ \E t \in Clients : BatchGetItem(t)
    \/ \E t \in Clients : BatchGetItemFails(t)
    \/ \E t \in Clients : AfterMultiGet(t)
    \/ \E n \in Nodes : FlushLocked(n)
    \/ \E n \in Nodes, ok \in BOOLEAN : FlushExecute(n, ok)
    \/ \E n \in Nodes : FlushFailed(n)
    \/ \E n \in Nodes : FlushPanic(n)

StoreSpec == StoreInit /\ [][StoreNext]_vars

\* A Store of two nodes used through all of its methods, short of closing it.
RouteInit == NewStore(2, MaxOps, bufSize)

RouteNext ==
    \/ Calls(KeyNames)
    \/ Steps
    \/ \E t \in Clients : GetMultiNext(t)

RouteSpec == RouteInit /\ [][RouteNext]_vars

\* A Store of one node whose clients ask whether items exist while they
\* upsert and delete them.
ExistInit == NewStore(1, MaxOpsLong, bufSize)

ExistNext ==
    \/ \E t \in Clients, k \in NodeKeys : DoesItemExist(t, k)
    \/ \E t \in Clients, k \in NodeKeys, v \in Values : Upsert(t, k, v)
    \/ \E t \in Clients, k \in NodeKeys : Delete(t, k)
    \/ \E t \in Clients, ok \in BOOLEAN : GetItem(t, ok)
    \/ \E t \in Clients : AfterGet(t)
    \/ \E t \in Clients : AfterWait(t)
    \/ \E t \in Clients : AfterPushWait(t)
    \/ \E n \in Nodes : FlushLocked(n)
    \/ \E n \in Nodes : FlushExecute(n, TRUE)

ExistSpec == ExistInit /\ [][ExistNext]_vars

\* A Store of one node whose clients upsert and delete while CloseAndWait
\* runs; every backing-store write succeeds.
BlockInit == NewStore(1, MaxOpsLong, bufSize)

BlockNext ==
    \/ \E t \in Clients, k \in NodeKeys, v \in Values : Upsert(t, k, v)
    \/ \E t \in Clients, k \in NodeKeys : Delete(t, k)
    \/ \E t \in Clients : AfterPushWait(t)
    \/ \E n \in Nodes : FlushLocked(n)
    \/ \E n \in Nodes : FlushExecute(n, TRUE)
    \/ CloseNode
    \/ AwaitDone

BlockSpec == BlockInit /\ [][BlockNext]_vars

\* A Store of two nodes whose clients upsert and delete on both while
\* CloseAndWait is called, and called again after it has returned; every
\* backing-store write succeeds.
CloseInit == NewStore(2, MaxOps, bufSize)

CloseNext ==
    \/ \E t \in Clients, k \in KeyNames, v \in Values : Upsert(t, k, v)
    \/ \E t \in Clients, k \in KeyNames : Delete(t, k)
    \/ \E t \in Clients : AfterPushWait(t)
    \/ \E n \in Nodes : FlushLocked(n)
    \/ \E n \in Nodes : FlushExecute(n, TRUE)
    \/ CloseNode
    \/ AwaitDone
    \/ CloseAndWaitAgain

CloseSpec == CloseInit /\ [][CloseNext]_vars

\* ------------------------------------------------- the key codec in use
\* The kinds an application may register and the keys it may build: kind "a"
\* is a prefix of kind "ab"; parents and identifiers may hold the delimiter.
KindPool == { <<"a">>, <<"a", "b">>, <<"b">> }

ParentPool == { <<>>, <<"p">>, <<"p", ".", "a", "x">> }

IdentifierPool == { <<>>, <<"x">>, <<"b", "x">>, <<"x", ".", "y">> }

KeyPool ==
    { Key(p, k, i) : p \in ParentPool, k \in KindPool \cup {<<>>}, i \in IdentifierPool }

storeVars == << numNodes, cache, queue, closed, keyConds, wpc, batch, wclosed, done,
                th, closer, store, crashed, opsLeft, accepted, early, lastWrite,
                last >>

\* Registry.Register(kind)
Register(kind) ==
    /\ kind \notin Registry
    /\ Registry' = Registry \cup {kind}
    /\ UNCHANGED << parsed, storeVars, holder, lpc, lockFault >>

\* Parse(k.String()) for a key k of the application.
ParseString(k) ==
    /\ parsed' = [key |-> k, kinds |-> Registry, out |-> Parse(KeyString(k)),
                  called |-> TRUE]
    /\ UNCHANGED << Registry, storeVars, holder, lpc, lockFault >>

\* A process that registers kinds and parses the strings of its keys; its
\* Store is constructed and idle. The registry starts empty.
KeyInit ==
    /\ newNodes(1, 0, bufSize)
    /\ Registry = {}
    /\ parsed = NoParse
    /\ newLocker

KeyNext ==
    \/ \E kind \in KindPool : Register(kind)
    \/ \E k \in KeyPool : ParseString(k)

KeySpec == KeyInit /\ [][KeyNext]_vars

\* ------------------------------------------------ the node's mutex in use
\* Each function of node is written as its sequence of statements that touch
\* the mutex, the shared fields, or the backing store. A statement names the
\* statements that may follow it; which one does depends on data the lock
\* discipline does not depend on, so every branch may be taken.
Lock(to)        == [k |-> "Lock", obj |-> "locker", to |-> to]
Unlock(to)      == [k |-> "Unlock", obj |-> "locker", to |-> to]
Access(obj, to) == [k |-> "Access", obj |-> obj, to |-> to]
Remote(to)      == [k |-> "Remote", obj |-> "client", to |-> to]
Wait(obj, to)   == [k |-> "Wait", obj |-> obj, to |-> to]
Jump(to)        == [k |-> "Jump", obj |-> "none", to |-> to]
Held(to)        == [k |-> "Held", obj |-> "locker", to |-> to]
Finish          == [k |-> "Return", obj |-> "none", to |-> {0}]

\* The statements of code placed behind off other statements.
Shift(code, off) ==
    [i \in 1..Len(code) |-> [code[i] EXCEPT !.to = { x + off : x \in @ }]]

\* A getOrSaveCache whose error paths return without taking the mutex again.
getOrSaveCacheNoRelock ==
    << Access("cache", {2}), Jump({3, 7, 17}),
       Access("keyConds", {4}), Jump({5, 17}),
       Wait("keyConds", {6}), Access("keyConds", {1}),
       Access("cache", {8}), Unlock({9}), Jump({10, 11}),
       Jump({16}),
       Remote({12}), Jump({13, 14}),
       Jump({16}),
       Lock({15}), Access("cache", {16}),
       Access("keyConds", {17}),
       Held({18}) >>

\* getOrSaveCache: the loop over cache.Get and waitAndSignal (1-6); the Busy
\* sentinel, Unlock, and the two error paths that Lock and Remove (7-13); the
\* GET and the success path (11, 14-15); the deferred signal (16); return.
\* Wait gives up the mutex and has it again when it returns.
getOrSaveCacheCode ==
    << Access("cache", {2}), Jump({3, 7, 17}),
       Access("keyConds", {4}), Jump({5, 17}),
       Wait("keyConds", {6}), Access("keyConds", {1}),
       Access("cache", {8}), Unlock({9}), Jump({10, 11}),
       Lock({13}),
       Remote({12}), Jump({10, 14}),
       Access("cache", {16}),
       Lock({15}), Access("cache", {16}),
       Access("keyConds", {17}),
       Held({18}) >>

\* getOrSaveCacheMulti: first loop (1), return when all is cached, Unlock,
\* fetchMulti with its BatchGetItem calls (4-6), Lock, error return, second
\* loop (9), return.
getOrSaveCacheMultiCode ==
    << Access("cache", {2}), Jump({3, 10}),
       Unlock({4}), Jump({5, 7}), Remote({6}), Jump({5, 7}),
       Lock({8}), Jump({9, 10}), Access("cache", {10}),
       Held({11}) >>

\* mutate: queue.push with its wait on notFull, the signal to the worker,
\* cache.Add.
mutateCode ==
    << Access("queue", {2}), Jump({3, 4}), Wait("queue", {1}),
       Access("queue", {5}), Access("cache", {6}) >>

\* insert and update: Lock, closed, getOrSaveCache, mutate; the deferred
\* Unlock runs at every return.
insertCode ==
    LET g == 3
        m == g + Len(getOrSaveCacheCode) + 1
        u == m + Len(mutateCode) + 1
    IN  << Lock({2}), Access("closed", {3}), Jump({4, u}) >>
        \o Shift(getOrSaveCacheCode, g)
        \o << Jump({m + 1, u}) >>
        \o Shift(mutateCode, m)
        \o << Unlock({u + 1}), Finish >>

\* upsert and delete: Lock, closed, mutate, deferred Unlock.
upsertCode ==
    LET u == 3 + Len(mutateCode) + 1
    IN  << Lock({2}), Access("closed", {3}), Jump({4, u}) >>
        \o Shift(mutateCode, 3)
        \o << Unlock({u + 1}), Finish >>

\* get: Lock, getOrSaveCache, Unlock.
getCode ==
    << Lock({2}) >> \o Shift(getOrSaveCacheCode, 1)
    \o << Unlock({Len(getOrSaveCacheCode) + 3}), Finish >>

\* getMulti: Lock, getOrSaveCacheMulti, Unlock.
getMultiCode ==
    << Lock({2}) >> \o Shift(getOrSaveCacheMultiCode, 1)
    \o << Unlock({Len(getOrSaveCacheMultiCode) + 3}), Finish >>

\* close: Lock, closed read, closed written and flushCond signalled, deferred
\* Unlock.
closeCode ==
    << Lock({2}), Access("closed", {3}), Jump({4, 5}), Access("closed", {5}),
       Unlock({6}), Finish >>

\* flush: Lock; the wait loop on flushCond (2-4); closed recorded and the
\* queue popped (5); Unlock; execute per mutation (8); again, return, or the
\* failure path: Lock, closed set and the queue popped, Unlock, panic.
flushCode ==
    << Lock({2}), Access("closed", {3}), Jump({4, 5}), Wait("flushCond", {2}),
       Access("queue", {6}), Unlock({7}), Jump({1, 8, 9, 13}), Remote({7}),
       Lock({10}), Access("closed", {11}), Access("queue", {12}), Unlock({13}),
       Finish >>

LockOps == {"insert", "update", "upsert", "delete", "get", "getMulti", "close"}

Code(op) ==
    CASE op \in {"insert", "update"} -> insertCode
      [] op \in {"upsert", "delete"} -> upsertCode
      [] op = "get" -> getCode
      [] op = "getMulti" -> getMultiCode
      [] op = "close" -> closeCode
      [] op = "flush" -> flushCode

\* A client calls a method of the node.
LockCall(t, op) ==
    /\ lpc[t] = LockIdle
    /\ lpc' = [lpc EXCEPT ![t] = [op |-> op, i |-> 1, waits |-> FALSE]]
    /\ UNCHANGED << holder, lockFault, Registry, parsed, storeVars >>

\* Goroutine t runs its next statement. Lock waits for the mutex to be free.
\* Wait gives the mutex up and blocks, and returns, at any later time, once
\* it has taken the mutex again. Unlock gives the mutex up; the other
\* statements leave it alone. What a statement does without the mutex that
\* it needs, or with the mutex that it must not have, is recorded.
LockStep(t) ==
    /\ lpc[t] # LockIdle
    /\ LET ins == Code(lpc[t].op)[lpc[t].i]
           mine == holder = t
           takes == ins.k = "Lock" \/ (ins.k = "Wait" /\ lpc[t].waits)
           blocks == ins.k = "Wait" /\ ~lpc[t].waits
       IN  /\ takes => holder = "none"
           /\ holder' = CASE takes -> t
                           [] (ins.k = "Unlock" \/ blocks) /\ mine -> "none"
                           [] OTHER -> holder
           /\ lockFault' = lockFault \cup
                 CASE (ins.k = "Access" \/ blocks) /\ ~mine -> {<< "unlocked", ins.obj >>}
                   [] ins.k = "Unlock" /\ ~mine -> {<< "unlock", ins.obj >>}
                   [] ins.k = "Remote" /\ mine -> {<< "locked", ins.obj >>}
                   [] ins.k = "Held" /\ ~mine -> {<< "returns without", ins.obj >>}
                   [] ins.k = "Return" /\ mine -> {<< "returns with", ins.obj >>}
                   [] OTHER -> {}
           /\ IF blocks
              THEN lpc' = [lpc EXCEPT ![t].waits = TRUE]
              ELSE \E j \in ins.to :
                      lpc' = [lpc EXCEPT ![t] =
                                 IF j = 0 THEN LockIdle
                                 ELSE [op |-> lpc[t].op, i |-> j, waits |-> FALSE]]
    /\ UNCHANGED << Registry, parsed, storeVars >>

\* A node used by its clients while its worker runs, seen at the mutex.
LockInit == NewStore(1, 0, bufSize)

LockNext ==
    \/ \E t \in Clients, op \in LockOps : LockCall(t, op)
    \/ \E t \in LockThreads : LockStep(t)

LockSpec == LockInit /\ [][LockNext]_vars

\* ------------------------------------------------------------- properties
\* Threads whose backing-store GET for key k is in flight: the GetItem of
\* getOrSaveCache, or a BatchGetItem of fetchMulti that still has to ask for k.
InFlight(k) ==
    { t \in Threads : \/ th[t].pc = "fetch" /\ th[t].key = k
                      \/ th[t].pc = "mfetch" /\ k \in th[t].pending }

\* C1: for each shard and each key, at most one backing-store GET for the
\* key, whether issued by get, insert, update or getMulti, is in flight at
\* any time.
C1_OneGetInFlight == \A k \in KeyNames : Cardinality(InFlight(k)) <= 1

\* C2: after CloseAndWait has returned, the mutation queue of every node is
\* empty and its flush worker has exited, also when public operations were
\* in progress while close ran.
C2_DrainedAfterClose ==
    closer.phase = "returned" =>
        \A n \in Nodes : qEmpty(queue[n]) /\ accepted[n] = <<>> /\ wpc[n] = "done"

\* close() has returned on node n.
CloseReturned(n) == closed[n] /\ (closer.phase # "close" \/ closer.i > n)

\* The operation r (a thread's locals, or the record of a return) is on a
\* node on which close() has returned.
OnClosedNode(r) ==
    IF r.op = "getMulti" THEN \E k \in r.keys : CloseReturned(nodeOf(k))
    ELSE CloseReturned(nodeOf(r.key))

\* C3: every public operation started on a node after close() has returned
\* on it fails with Closed: it neither goes on past its first step nor
\* returns anything else.
C3_ClosedRejects ==
    [][opsLeft' < opsLeft =>
          /\ \A t \in Threads :
                th[t].pc = "idle" /\ th'[t].pc # "idle" => ~OnClosedNode(th'[t])
          /\ last'.op # "none" /\ last'.res # "Closed" => ~OnClosedNode(last')]_vars

\* C4: the PUT and DELETE calls reach the backing store in the order in which
\* the mutating calls that queued them returned: each mutation the flush
\* worker executes is the oldest one accepted and not yet executed.
C4_ExecutedInReturnOrder ==
    [][\A n \in Nodes :
          Len(accepted'[n]) < Len(accepted[n]) =>
              /\ accepted'[n] = Tail(accepted[n])
              /\ batch[n] # <<>>
              /\ Head(batch[n]) = Head(accepted[n])
              /\ store' \in {store, execute(store, Head(accepted[n]))}]_vars

\* The worker has written to the table and now holds a batch of two different
\* mutations of one key.
C4_Witness ==
    \E n \in Nodes :
        /\ wpc[n] = "exec"
        /\ store # InitialStore
        /\ Len(batch[n]) = 2
        /\ batch[n][1].key = batch[n][2].key
        /\ batch[n][1] # batch[n][2]

\* The latest accepted mutation of key k is m.op with value v, and it was
\* accepted before the operation recorded in r started.
WrittenBefore(r, k, op, v) ==
    /\ lastWrite[k] = [op |-> op, key |-> k, val |-> v]
    /\ k \notin r.dirty

\* C5: after Insert(k, v) has returned success, a later Get(k) with no other
\* mutation of k in between returns v and issues no backing-store GET,
\* whatever happened to other keys and in the flush worker in between.
C5_GetAfterInsert ==
    \A v \in Values :
        last.op = "get" /\ WrittenBefore(last, last.key, "insert", v) =>
            last.res = v /\ ~last.fetched

\* The cache entry the latest accepted mutation of key k wrote.
Written(lw, k) == entryOf(lw[k].op, lw[k].val)

\* What a getMulti hands back for an entry: the attributes of an Exist entry.
ItemOf(e) == IF e.state = "Exist" THEN e.avs ELSE "none"

\* C6: when a mutating call has written the cache entry of a key while a
\* fetch of that key by getOrSaveCache or getOrSaveCacheMulti was in flight,
\* then as the fetch completes the cache still holds the entry of the latest
\* mutation and the fetching operation goes by that entry, not by the fetched
\* one.
C6_WriteSurvivesFetch ==
    [][\A t \in Threads :
          /\ th[t].pc = "fetched" /\ th'[t].pc # "fetched" /\ th[t].key \in th[t].hit =>
                LET k == th[t].key
                    e == Written(lastWrite, k)
                IN  /\ lruValue(cache'[nodeOf(k)], k) = Written(lastWrite', k)
                    /\ th[t].op = "get" =>
                          last'.res = IF e.state = "NotExist" THEN "ItemNotExisted" ELSE e.avs
                    /\ th[t].op = "insert" /\ e.state = "Exist" => last'.res = "ItemExisted"
                    /\ th[t].op = "update" /\ e.state = "NotExist" =>
                          last'.res = "ItemNotExisted"
          /\ th[t].pc = "mfetched" /\ th'[t].pc # "mfetched" =>
                \A k \in th[t].hit :
                    /\ lruValue(cache'[th[t].i], k) = Written(lastWrite, k)
                    /\ last'.op = "getMulti" /\ last'.res = "ok"
                    /\ last'.items[k] = ItemOf(Written(lastWrite, k))]_vars

\* The cache entry of key k on its node.
Cached(c, k) == lruValue(c[nodeOf(k)], k)

\* The entries of the caches c and d are the same (their order may differ).
SameEntries(c, d) == \A k \in KeyNames : Cached(c, k) = Cached(d, k)

\* C7: Insert(k, v2) on an open node whose cache holds an Exist entry for k
\* returns ItemExisted in its first step, with no backing-store call, no
\* mutation queued and every cache entry unchanged; and a Get(k) started while
\* the cache holds Exist(v1) for k returns v1 without a backing-store GET.
C7_InsertOnExist ==
    [][opsLeft' < opsLeft =>
          /\ \A t \in Threads :
                /\ th[t].pc = "idle" /\ th'[t].pc # "idle"
                /\ th'[t].op \in {"insert", "get"}
                => Cached(cache, th'[t].key).state # "Exist"
          /\ last'.op = "insert" /\ Cached(cache, last'.key).state = "Exist"
             /\ ~closed[nodeOf(last'.key)]
             => /\ last'.res = "ItemExisted"
                /\ ~last'.fetched
                /\ queue' = queue /\ accepted' = accepted /\ store' = store
                /\ SameEntries(cache', cache)
          /\ last'.op = "get" /\ Cached(cache, last'.key).state = "Exist"
             => /\ last'.res = Cached(cache, last'.key).avs
                /\ ~last'.fetched
                /\ SameEntries(cache', cache)]_vars

\* An insert has just been refused for a key that a mutation wrote before.
C7_Witness ==
    /\ last.op = "insert" /\ last.res = "ItemExisted"
    /\ lastWrite[last.key].key = last.key
    /\ Cached(cache, last.key) = Written(lastWrite, last.key)
    /\ last.val # lastWrite[last.key].val

\* Thread t is about to leave getOrSaveCache with a NotExist entry: woken on
\* an entry that is NotExist, or back from a GET that found no item (or
\* finding a NotExist entry written meanwhile).
ResolvesNotExist(t) ==
    LET e == Cached(cache, th[t].key)
    IN  \/ th[t].pc = "condWoken" /\ e.state = "NotExist"
        \/ /\ th[t].pc = "fetched" /\ th[t].resp # "err"
           /\ IF e = NoEntry \/ e.state = "Busy" THEN th[t].resp = "none"
              ELSE e.state = "NotExist"

\* C8: Update(k, v) and Get(k) fail with ItemNotExisted when the state of k
\* resolves to NotExist, whether the entry is cached when the call starts or
\* comes out of a wait or a fetch; the failed Update queues no mutation and
\* leaves the cache entries as they are; a successful Delete(k) leaves a
\* NotExist entry, so that a Get(k) started then fails with ItemNotExisted.
C8_NotExistFails ==
    [][/\ \A t \in Threads :
             /\ th[t].op \in {"update", "get"} /\ ResolvesNotExist(t)
             /\ th'[t].pc # th[t].pc
             => /\ last'.op = th[t].op /\ last'.key = th[t].key
                /\ last'.res = "ItemNotExisted"
                /\ queue' = queue /\ accepted' = accepted
                /\ Cached(cache', th[t].key) = NotExistEntry
       /\ opsLeft' < opsLeft =>
             /\ \A t \in Threads :
                   /\ th[t].pc = "idle" /\ th'[t].pc # "idle"
                   /\ th'[t].op \in {"update", "get"}
                   => Cached(cache, th'[t].key).state # "NotExist"
             /\ last'.op \in {"update", "get"}
                /\ Cached(cache, last'.key).state = "NotExist"
                /\ (last'.op = "update" => ~closed[nodeOf(last'.key)])
                => /\ last'.res = "ItemNotExisted"
                   /\ ~last'.fetched
                   /\ queue' = queue /\ accepted' = accepted
                   /\ SameEntries(cache', cache)
       /\ last'.op = "delete" /\ last'.res = "ok"
          => Cached(cache', last'.key) = NotExistEntry]_vars

\* An update has just failed on a key whose latest mutation is a delete.
C8_Witness ==
    /\ last.op = "update" /\ last.res = "ItemNotExisted"
    /\ lastWrite[last.key] = [op |-> "delete", key |-> last.key, val |-> "none"]
    /\ Cached(cache, last.key) = NotExistEntry

\* C9: Upsert is last-write-wins as seen by Get: a Get(k) started after
\* Upsert(k, v) has returned, with no other mutation of k accepted since,
\* returns v (so after Upsert(k, v1); Upsert(k, v2) it returns v2, and after
\* Upsert(k, v); Upsert(k, v) what it returns after a single Upsert(k, v)).
C9_GetAfterUpsert ==
    \A v \in Values :
        last.op = "get" /\ WrittenBefore(last, last.key, "upsert", v) => last.res = v

\* C10: a GetMulti that returns hands back no key that was not requested, and
\* for every requested key whose latest local mutation was accepted before
\* the call started, the value that mutation wrote (no item after a delete).
C10_GetMultiLatest ==
    last.op = "getMulti" /\ last.res = "ok" =>
        \A k \in KeyNames :
            /\ k \notin last.keys => last.items[k] = "none"
            /\ k \in last.keys /\ lastWrite[k].key = k /\ k \notin last.dirty
               => last.items[k] = ItemOf(Written(lastWrite, k))

\* Get calls on key k that are in progress and have issued a backing-store
\* GET: the GetItem is in flight, or it has answered and the call has not
\* returned yet.
GetsFetching(k) ==
    { t \in Threads : /\ th[t].op = "get"
                      /\ th[t].key = k
                      /\ th[t].pc = "fetch" \/ th[t].fetched }

\* C11: among the Get(k) calls that overlap on a key, at most one issues a
\* backing-store GET; the others wait for it on the per-key barrier.
C11_OneGetPerOverlap ==
    \A k \in KeyNames : Cardinality(GetsFetching(k)) <= 1

\* The call of get, insert or update on key k that enters getOrSaveCache in
\* this step: a public operation starts, and it is a call on k that either
\* returns at once or leaves its thread inside the call.
EntersOn(k) ==
    /\ opsLeft' < opsLeft
    /\ \/ last'.op \in {"get", "insert", "update"} /\ last'.key = k
       \/ \E t \in Threads : /\ th[t].pc = "idle"
                              /\ th'[t].pc # "idle"
                              /\ th'[t].op \in {"get", "insert", "update"}
                              /\ th'[t].key = k

\* The keys that have an entry in the CondSet of node n.
WaitedKeys(n) == { k \in KeyNames : keyConds[n][k] > 0 }

\* C12: a call that finds the Busy sentinel of key k while the CondSet holds
\* maxGet keys and none of them is k fails at once with TooManyRequests,
\* leaving the CondSet and the entries of the cache as they were; if k is in
\* the set, or the set is not full, the caller is admitted as a waiter.
C12_FullCondSetRejects ==
    [][\A k \in KeyNames :
          EntersOn(k) /\ ~closed[nodeOf(k)] /\ Cached(cache, k) = BusyEntry
          => IF k \notin WaitedKeys(nodeOf(k)) /\ Cardinality(WaitedKeys(nodeOf(k))) = maxGet
             THEN /\ last'.res = "TooManyRequests"
                  /\ keyConds' = keyConds
                  /\ SameEntries(cache, cache')
                  /\ \A t \in Threads : th[t].pc = "idle" => th'[t].pc = "idle"
             ELSE /\ last'.op = "none"
                  /\ keyConds'[nodeOf(k)][k] = keyConds[nodeOf(k)][k] + 1
                  /\ \E t \in Threads : /\ th[t].pc = "idle"
                                         /\ th'[t].pc = "condWait"
                                         /\ th'[t].key = k]_vars

\* A caller has just been refused while another key is waited for.
C12_Witness ==
    /\ last.res = "TooManyRequests"
    /\ \E k \in KeyNames : k # last.key /\ keyConds[nodeOf(k)][k] > 0

\* The mutations in the ring queue q, oldest first.
Queued(q) == [i \in 1..q.len |-> q.muts[(q.l + i - 1) % q.cap]]

\* The producers of node n that this step wakes from their wait in push.
Woken(n) ==
    { t \in Threads : /\ th[t].pc = "pushWait"
                      /\ nodeOf(th[t].key) = n
                      /\ th'[t].pc = "pushWoken" }

\* C13: a push is made only into a queue that has room and adds its mutation
\* behind the queued ones; a mutating call that finds the queue full starts
\* to wait with the queue untouched and without returning; a waiting producer
\* leaves its wait only in a step in which the flush worker pops, one
\* producer per pop, and a woken producer either pushes its own mutation and
\* returns nil or, the queue being full again, waits again.
C13_PushWaitsForRoom ==
    [][/\ \A n \in Nodes :
             /\ Len(accepted'[n]) > Len(accepted[n])
                => /\ ~qFull(queue[n])
                   /\ Len(accepted'[n]) = Len(accepted[n]) + 1
                   /\ Queued(queue'[n])
                        = Append(Queued(queue[n]), accepted'[n][Len(accepted'[n])])
             /\ queue'[n].len < queue[n].len
                => LET pops == queue[n].len - queue'[n].len
                       W == { t \in Threads : th[t].pc = "pushWait"
                                                /\ nodeOf(th[t].key) = n }
                   IN  Cardinality(Woken(n))
                         = IF pops < Cardinality(W) THEN pops ELSE Cardinality(W)
       /\ \A t \in Threads :
             /\ th[t].pc # "pushWait" /\ th'[t].pc = "pushWait"
                => /\ qFull(queue[nodeOf(th'[t].key)])
                   /\ queue' = queue
                   /\ accepted' = accepted
                   /\ last'.op = "none"
             /\ th[t].pc = "pushWait" /\ th'[t].pc # "pushWait"
                => /\ th'[t].pc = "pushWoken"
                   /\ queue'[nodeOf(th[t].key)].len < queue[nodeOf(th[t].key)].len
             /\ th[t].pc = "pushWoken" /\ th'[t].pc # "pushWoken"
                => \/ th'[t].pc = "pushWait"
                   \/ /\ th'[t].pc = "idle"
                      /\ last'.res = "ok"
                      /\ last'.key = th[t].key
                      /\ LET a == accepted'[nodeOf(th[t].key)]
                         IN  /\ Len(a) = Len(accepted[nodeOf(th[t].key)]) + 1
                             /\ a[Len(a)] = [op |-> th[t].op, key |-> th[t].key,
                                             val |-> th[t].val]]_vars

\* A producer that waited for room has been woken by a pop and finds room.
C13_Witness ==
    \E t \in Threads : /\ th[t].pc = "pushWoken"
                        /\ ~qFull(queue[nodeOf(th[t].key)])

\* C14: in every node, 0 <= queue.len <= queue.cap, the indexes l and r are
\* in [0, cap), r = (l + len) mod cap, and the cache holds at most
\* cacheCapacity entries.
C14_QueueAndCacheBounds ==
    \A n \in Nodes :
        /\ 0 <= queue[n].len /\ queue[n].len <= queue[n].cap
        /\ queue[n].l \in 0..(queue[n].cap - 1)
        /\ queue[n].r \in 0..(queue[n].cap - 1)
        /\ queue[n].r = (queue[n].l + queue[n].len) % queue[n].cap
        /\ Len(cache[n]) <= cacheCapacity

\* A full queue whose indexes have wrapped around, beside a full cache.
C14_Witness ==
    \E n \in Nodes : /\ qFull(queue[n])
                      /\ queue[n].l # 0
                      /\ Len(cache[n]) = cacheCapacity

\* C15: a Busy sentinel in the cache is eventually replaced by another entry
\* or removed, as long as the process lives: given that every backing-store
\* GET returns, no entry stays Busy forever.
C15_BusyIsTransient ==
    \A k \in NodeKeys : []<>(Cached(cache, k) # BusyEntry \/ crashed)

\* A fetch has failed and its sentinel is gone while a waiter of the key is
\* about to retry.
C15_Witness ==
    /\ last.res = "BackingStoreError"
    /\ Cached(cache, last.key) = NoEntry
    /\ \E t \in Threads : th[t].pc = "condWoken" /\ th[t].key = last.key

\* The node that the claim assigns to key k.
Home(k) == hash64(KeyString(KeyOf(k))) % numNodes

\* Everything node n holds or works on belongs to keys whose home is n.
HandlesOwnKeys(n) ==
    /\ \A i \in 1..Len(cache[n]) : Home(cache[n][i].key) = n
    /\ \A i \in 1..Len(Queued(queue[n])) : Home(Queued(queue[n])[i].key) = n
    /\ \A i \in 1..Len(batch[n]) : Home(batch[n][i].key) = n
    /\ \A i \in 1..Len(accepted[n]) : Home(accepted[n][i].key) = n
    /\ \A k \in KeyNames : keyConds[n][k] > 0 => Home(k) = n

\* A call in progress is inside the home node of its key; a GetMulti asks
\* node i only for keys whose home is i.
CallsAtHome ==
    \A t \in Threads :
        /\ th[t].pc \in {"fetch", "fetched", "condWait", "condWoken", "pushWait",
                          "pushWoken"}
           => Home(th[t].key) \in Nodes
        /\ th[t].pc \in {"mfetch", "mfetched"}
           => \A k \in th[t].notCached \cup th[t].pending : Home(k) = th[t].i

\* C16: the number of nodes never changes, and at every moment each node
\* holds cache entries, CondSet entries, queued and executing mutations only
\* of keys whose hash modulo the number of nodes is its index, GetMulti
\* included.
C16_StableRouting ==
    [][/\ numNodes' = numNodes
       /\ \A n \in Nodes : HandlesOwnKeys(n)'
       /\ CallsAtHome']_vars

\* A GetMulti over keys of both nodes has returned and both nodes have cached
\* entries.
C16_Witness ==
    /\ last.op = "getMulti"
    /\ last.res = "ok"
    /\ \E j, k \in last.keys : Home(j) # Home(k)
    /\ \A n \in Nodes : cache[n] # <<>>

\* The string handed to Parse in the recorded call.
ParsedString == KeyString(parsed.key)

\* The position of the last delimiter of s (0: none), the text before it and
\* the segment after it.
LastDot(s) ==
    LET dots == { i \in 1..Len(s) : s[i] = "." }
    IN  IF dots = {} THEN 0 ELSE CHOOSE i \in dots : \A j \in dots : j <= i

ParentPart(s) == SubSeq(s, 1, LastDot(s) - 1)

LastSegment(s) == SubSeq(s, LastDot(s) + 1, Len(s))

\* The lengths of the prefixes of seg that are kinds of the registry R.
KindLengths(seg, R) == { i \in 1..Len(seg) : SubSeq(seg, 1, i) \in R }

NoDelimiter(s) == \A i \in 1..Len(s) : s[i] # "."

\* C17 as stated: when Parse is given the string of a key whose Kind is
\* registered, it returns that key, whatever the Parent, the Identifier and
\* the other registered kinds.
C17_ParseInvertsString ==
    parsed.called /\ parsed.key.Kind \in parsed.kinds => parsed.out = parsed.key

\* C17, amended: Parse returns the key when its Kind is registered, neither
\* its Kind nor its Identifier holds the delimiter, and its Kind is the only
\* registered kind that is a prefix of Kind followed by Identifier.
C17_ParseInvertsUnambiguous ==
    /\ parsed.called
    /\ parsed.key.Kind \in parsed.kinds
    /\ NoDelimiter(parsed.key.Kind \o parsed.key.Identifier)
    /\ KindLengths(parsed.key.Kind \o parsed.key.Identifier, parsed.kinds)
         = { Len(parsed.key.Kind) }
    => parsed.out = parsed.key

\* A key with a dotted parent has been parsed back while other kinds were
\* registered.
C17_Witness ==
    /\ parsed.called
    /\ parsed.key = Key(<<"p", ".", "a", "x">>, <<"a", "b">>, <<"x">>)
    /\ parsed.kinds = { <<"a", "b">>, <<"b">> }
    /\ parsed.out = parsed.key

\* C18 as stated: when some prefix of the last dotted segment of s is a registered
\* kind, Parse(s) returns the text before the last delimiter as Parent, the
\* longest registered prefix of the segment as Kind and the rest of the
\* segment as Identifier.
C18_LongestRegisteredPrefix ==
    LET seg == LastSegment(ParsedString)
        lens == KindLengths(seg, parsed.kinds)
    IN  parsed.called /\ lens # {}
        => LET n == CHOOSE i \in lens : \A j \in lens : j <= i
           IN  parsed.out = Key(ParentPart(ParsedString), SubSeq(seg, 1, n),
                                SubSeq(seg, n + 1, Len(seg)))

\* C18, amended: as above with the shortest registered prefix of the segment
\* as Kind.
C18_ShortestRegisteredPrefix ==
    LET seg == LastSegment(ParsedString)
        lens == KindLengths(seg, parsed.kinds)
    IN  parsed.called /\ lens # {}
        => LET n == CHOOSE i \in lens : \A j \in lens : i <= j
           IN  parsed.out = Key(ParentPart(ParsedString), SubSeq(seg, 1, n),
                                SubSeq(seg, n + 1, Len(seg)))

\* A segment with two registered prefixes, under a dotted parent, has been
\* parsed to the shorter kind.
C18_Witness ==
    /\ parsed.called
    /\ ParsedString = <<"p", ".", "a", "x", ".", "a", "b", "x">>
    /\ { <<"a">>, <<"a", "b">> } \subseteq parsed.kinds
    /\ parsed.out = Key(<<"p", ".", "a", "x">>, <<"a">>, <<"b", "x">>)

\* C19 as stated: the string of a key whose Kind is not registered parses to
\* an incomplete key, whatever the registry holds.
C19_UnregisteredIsIncomplete ==
    parsed.called /\ parsed.key.Kind \notin parsed.kinds => Incomplete(parsed.out)

\* C19, amended: the string of a key whose Kind is not registered parses to
\* an incomplete key provided that no registered kind is a prefix of the last
\* dotted segment of the string.
C19_UnregisteredNoPrefix ==
    /\ parsed.called
    /\ parsed.key.Kind \notin parsed.kinds
    /\ KindLengths(LastSegment(ParsedString), parsed.kinds) = {}
    => Incomplete(parsed.out)

\* A key of an unregistered kind, under a parent one of whose segments starts
\* with a registered kind, has been parsed to an incomplete key.
C19_Witness ==
    /\ parsed.called
    /\ parsed.key.Kind = <<"b">>
    /\ parsed.key.Parent = <<"p", ".", "a", "x">>
    /\ parsed.kinds = { <<"a">> }
    /\ Incomplete(parsed.out)

\* Thread t, whose backing-store GET has failed, takes the failure path of
\* getOrSaveCache in this step.
FailurePath(t) ==
    th[t].pc = "fetched" /\ th[t].resp = "err" /\ th'[t].pc # "fetched"

\* What the failure path of thread t does apart from its change of the entry
\* of its own key: the call fails with BackingStoreError, no sentinel of the
\* key is left, a waiter of the key (if any) is woken to retry, and the
\* entries of the other keys stay.
FailureReported(t) ==
    LET k == th[t].key
    IN  /\ last'.res = "BackingStoreError"
        /\ last'.key = k
        /\ Cached(cache', k) # BusyEntry
        /\ (\E u \in Threads : th[u].pc = "condWait" /\ th[u].key = k)
           => \E u \in Threads : /\ th[u].pc = "condWait"
                                  /\ th[u].key = k
                                  /\ th'[u].pc = "condWoken"
        /\ \A j \in KeyNames \ {k} : Cached(cache', j) = Cached(cache, j)

\* C20: when the backing-store GET of getOrSaveCache fails, the call fails
\* with BackingStoreError, waiters of the key are signalled, and the only
\* change of the cache is the removal of the Busy sentinel: an entry that a
\* concurrent mutator wrote for the key during the fetch remains cached.
C20_FailureRemovesOnlySentinel ==
    [][\A t \in Threads :
          FailurePath(t)
          => /\ FailureReported(t)
             /\ Cached(cache', th[t].key)
                  = IF Cached(cache, th[t].key) = BusyEntry
                    THEN NoEntry
                    ELSE Cached(cache, th[t].key)]_vars

MutatingOps == {"insert", "upsert", "update", "delete"}

C22_DrainedBeforeDone ==
    [][\A n \in Nodes :
          /\ wpc'[n] = "done" => early'[n] = 0
          /\ Len(accepted'[n]) < Len(accepted[n])
             => /\ accepted'[n] = Tail(accepted[n])
                /\ Head(batch[n]) = Head(accepted[n])
                /\ wpc'[n] # "failed"
                   => /\ store' = execute(store, Head(accepted[n]))
                      /\ batch'[n] = Tail(batch[n])]_vars

\* close() found two mutations pushed and not yet written; both have been
\* written and the worker has sent done.
C22_Witness ==
    \E n \in Nodes :
        /\ wpc[n] = "done"
        /\ closed[n]
        /\ accepted[n] = <<>>
        /\ \E k \in KeyNames : nodeOf(k) = n /\ store[k] # InitialStore[k]

\* Threads inside waitAndSignal(k): registered, and not yet past the
\* bookkeeping that follows their wake-up.
InsideWait(k) == { t \in Threads : th[t].pc \in {"condWait", "condWoken", "stranded"}
                                    /\ th[t].key = k }

\* C23: the CondSet of a node has an entry for a key iff some thread is
\* inside waitAndSignal for it, the entry's count is the number of those
\* threads, and the entries are never more than the capacity.
C23_CondSetCountsWaiters ==
    \A n \in Nodes :
        /\ \A k \in KeyNames :
              nodeOf(k) = n => keyConds[n][k] = Cardinality(InsideWait(k))
        /\ Cardinality(WaitedKeys(n)) <= maxGet

\* Two threads are registered on the same key, one of them already woken.
C23_Witness ==
    \E k \in KeyNames :
        /\ keyConds[nodeOf(k)][k] = 2
        /\ \E t \in InsideWait(k) : th[t].pc = "condWoken"

\* C24: no thread stays blocked in waitAndSignal: every thread that waits
\* there is woken again, and no thread is left waiting on an entry that was
\* deleted.
C24_NoWaiterStranded ==
    \A t \in Threads : []<>(th[t].pc \notin {"condWait", "stranded"})

\* A fetch has completed and woken u; a next fetcher v is already at its GET
\* and t waits, registered on the same entry, while u has not run yet.
C24_Witness ==
    \E t, u, v \in Threads :
        /\ th[t].key = th[u].key /\ th[u].key = th[v].key
        /\ th[t].pc = "condWait"
        /\ th[u].pc = "condWoken"
        /\ th[v].pc = "fetch"

\* C25: the ring queue is first in, first out, and the worker executes its
\* batch in that order. As long as no write has failed, the mutations pushed
\* and not yet handed to execute are the worker's batch followed by the
\* contents of the ring, oldest first; a push adds one mutation behind the
\* others; the pops of a drain move the whole contents, in order, behind the
\* batch and leave the ring empty; and execute takes the head of the batch.
C25_QueueIsFifo ==
    [][\A n \in Nodes :
          /\ wpc[n] \notin {"failed", "panic", "dead"}
             => accepted[n] = batch[n] \o Queued(queue[n])
          /\ queue'[n].len > queue[n].len
             => /\ queue'[n].len = queue[n].len + 1
                /\ SubSeq(Queued(queue'[n]), 1, queue[n].len) = Queued(queue[n])
                /\ batch'[n] = batch[n]
          /\ queue'[n].len < queue[n].len
             => /\ queue'[n].len = 0
                /\ batch'[n] = batch[n] \o Queued(queue[n])
          /\ batch'[n] # batch[n] /\ queue'[n].len = queue[n].len
             => /\ batch'[n] = Tail(batch[n])
                /\ store' = [store EXCEPT ![Head(batch[n]).key] =
                                 IF Head(batch[n]).op = "delete" THEN "none"
                                 ELSE Head(batch[n]).val]]_vars

\* The worker has drained two different mutations from a ring whose indexes
\* had moved on before: the second pop wrapped around.
C25_Witness ==
    \E n \in Nodes :
        /\ wpc[n] = "exec"
        /\ Len(batch[n]) = 2
        /\ batch[n][1] # batch[n][2]
        /\ queue[n].l = 1
        /\ accepted[n] = batch[n]

\* An upsert or delete returns nil in this step, on a node that is open.
UpsertDeleteReturns ==
    /\ last'.op \in {"upsert", "delete"}
    /\ last'.res = "ok"
    /\ ~closed[nodeOf(last'.key)]

\* What the step does to the key of the call: no thread starts a remote GET
\* or a wait on the CondSet, the CondSet is as before, one mutation, the
\* call's own, is queued, and the key's entry is the one the call wrote.
UpsertDeleteEffect ==
    LET k == last'.key
        n == nodeOf(k)
        m == [op |-> last'.op, key |-> k, val |-> last'.val]
    IN  /\ \A t \in Threads :
              th'[t].pc \in {"fetch", "mfetch", "condWait"} => th'[t].pc = th[t].pc
        /\ store' = store
        /\ keyConds' = keyConds
        /\ accepted'[n] = Append(accepted[n], m)
        /\ Queued(queue'[n]) = Append(Queued(queue[n]), m)
        /\ Cached(cache', k) = IF m.op = "delete" THEN NotExistEntry ELSE ExistEntry(m.val)

\* C26: an upsert or delete that returns nil on an open node has issued no
\* backing-store GET and has not waited on the CondSet; it has queued exactly
\* one mutation and written the entry of its key, and the entry of every
\* other key and the CondSet are as they were.
C26_UpsertDeleteFrame ==
    [][UpsertDeleteReturns =>
          /\ UpsertDeleteEffect
          /\ \A k \in KeyNames \ {last'.key} :
                Cached(cache', k) = Cached(cache, k)]_vars

\* The states of the entries a call has been given are Exist or NotExist.
Resolved(g) == g \subseteq {"Exist", "NotExist"}

\* C27: the entry getOrSaveCache returns to insert, update or get is never
\* Busy, and the mapping getOrSaveCacheMulti returns on success has an entry
\* for every key it was asked for, none of them Busy.
C27_NeverReturnsBusy ==
    /\ \A t \in Threads : Resolved(th[t].got)
    /\ Resolved(last.got)
    /\ last.op = "getMulti" /\ last.res = "ok" => last.got # {}
    /\ last.op \in {"get", "insert", "update"}
       /\ last.res \notin {"BackingStoreError", "TooManyRequests", "Closed"}
       => last.got # {}

\* A GetMulti has returned an existing and a missing item after a fetch,
\* during the fetch of a Get for one of its keys whose Busy sentinel is no
\* longer what the cache holds.
C27_Witness ==
    /\ last.op = "getMulti"
    /\ last.res = "ok"
    /\ last.fetched
    /\ last.got = {"Exist", "NotExist"}
    /\ \E t \in Threads : /\ th[t].pc = "fetch"
                           /\ th[t].key \in last.keys
                           /\ Cached(cache, th[t].key) # BusyEntry

C29_DoesItemExist ==
    last.op = "exists" =>
        /\ last.got = {"Exist"} => last.res = "true"
        /\ last.got = {"NotExist"} => last.res = "false"
        /\ last.res # "ItemNotExisted"

\* C30: every call of a public operation eventually returns, producers
\* blocked on a full queue of a closed node included. A call can only return
\* if it is never in a state that no step of any goroutine leads out of: no
\* call waits for room in the queue of a node whose flush worker, the only
\* goroutine that pops, has returned.
C30_NoCallBlockedForGood ==
    \A t \in Threads :
        ~(th[t].pc = "pushWait" /\ wpc[nodeOf(th[t].key)] = "done")

\* C31: every call of Store.CloseAndWait eventually returns when every
\* backing-store write succeeds. A call can only return if it is never in a
\* state that no step of any goroutine leads out of: no call waits to receive
\* from the done channel of a node whose channel is empty and whose flush
\* worker, the only sender, has returned.
C31_CloseAndWaitReturns ==
    ~(/\ closer.phase = "wait"
      /\ done[closer.i] = 0
      /\ wpc[closer.i] = "done")
====
